---------------------------- MODULE Spec2Model ----------------------------
(***************************************************************************)
(* A model of the binsparse generic axis-format tensor (bc_matrix):        *)
(* the four axis formats, the grammar of legal format sequences and its    *)
(* finite-state validator, the rank-2 named layouts, and the conversion    *)
(* between layouts.                                                        *)
(***************************************************************************)
EXTENDS Integers, Sequences, FiniteSets, TLC

VARIABLES
    formats,    \* validator: the axis-format sequence under validation
    pos,        \* validator: number of axes consumed so far
    state,      \* validator: automaton state
    verdict,    \* validator: "running", "accept" or "reject"
    report,     \* validator: the rejection report, or NoReport
    axis,       \* axis descriptor: a bc_axis_struct
    fmt,        \* axis descriptor: result of classify, or "none"
    src,        \* converter: the source bc_matrix
    mid,        \* converter: the converted bc_matrix, or NoMatrix
    back,       \* converter: mid converted back, or NoMatrix
    target,     \* converter: the target formats and order asked for, or NoTarget
    request,    \* resolver: the construction request
    generic,    \* resolver: the bc_matrix objects built for the request
    resolved,   \* resolver: the names found for them, or NotResolved
    call,       \* checked conversion: the target asked for, or NoCall
    phase,      \* checked conversion: "idle", "building", "returned" or "failed"
    error,      \* checked conversion: the typed error returned, or NoError
    stored,     \* tensor of any rank: the coordinates it stores
    tensor,     \* tensor of any rank: the bc_matrix built for them, or NoMatrix
    derived,    \* tensor of any rank: the sizes the validator derives, or <<>>
    file,       \* HDF5 file: the dataset under each label
    observed    \* HDF5 file: the last call made on it and its result

vars == <<formats, pos, state, verdict, report, axis, fmt,
          src, mid, back, target, request, generic, resolved,
          call, phase, error, stored, tensor, derived, file, observed>>

validatorVars == <<formats, pos, state, verdict, report>>
axisVars == <<axis, fmt>>
converterVars == <<src, mid, back, target>>
resolverVars == <<request, generic, resolved>>
checkedVars == <<call, phase, error>>
tensorVars == <<stored, tensor, derived>>
hdf5Vars == <<file, observed>>

(***************************************************************************)
(* Bounds of the model.                                                    *)
(***************************************************************************)
MaxRank == 4
MaxAxisDim == 2
MaxDim == 2
MaxNnz == 2
MaxBitmapDim == 1
MaxInsertions == 3

(***************************************************************************)
(* The four axis formats (binsparse_matrix.h, "Each axis k ... can be in   *)
(* one of four formats").                                                  *)
(***************************************************************************)
Full == "Full"
Sparse == "Sparse"
Hyper == "Hyper"
Index == "Index"

AxisFormat == {Full, Sparse, Hyper, Index}

\* A NULL buffer pointer: a value no buffer (a sequence of naturals) equals.
NULL == << -1 >>

\* all sequences over S of length 0..n
RECURSIVE SeqsUpTo(_, _)
SeqsUpTo(S, n) ==
    IF n = 0 THEN {<<>>}
    ELSE LET shorter == SeqsUpTo(S, n - 1)
         IN shorter \cup {Append(s, x) : s \in {t \in shorter : Len(t) = n - 1}, x \in S}

(***************************************************************************)
(* classify: the axis format is determined by the presence of pointer [k]  *)
(* and index [k] (NULL or non-NULL); there is no format enum.              *)
(***************************************************************************)
classify_nindex(a) ==
    IF a.index # NULL /\ a.nindex > 0
    THEN (IF a.pointer # NULL THEN Hyper ELSE Index)
    ELSE (IF a.pointer # NULL THEN Sparse ELSE Full)

classify(a) ==
    IF a.pointer = NULL
    THEN (IF a.index = NULL THEN Full ELSE Index)
    ELSE (IF a.index = NULL THEN Sparse ELSE Hyper)

(***************************************************************************)
(* The five rules on a format sequence f (axis 0 is f[1]).                 *)
(***************************************************************************)
\* (1) from left to right, if a "Full" format appears, the remaining
\*     formats must all be Full.
Rule1(f) ==
    \A i \in 1..Len(f) : f[i] = Full => \A j \in (i + 1)..Len(f) : f[j] = Full

\* (2) the last format must be "Index" or "Full".
Rule2(f) == Len(f) > 0 => f[Len(f)] \in {Index, Full}

\* (3) (..., Sparse, Full, ...) is not supported.
Rule3_dropped(f) == TRUE

Rule3(f) == \A i \in 1..(Len(f) - 1) : ~(f[i] = Sparse /\ f[i + 1] = Full)

\* (4) (..., Hyper, Full, ...) is not supported.
Rule4(f) == \A i \in 1..(Len(f) - 1) : ~(f[i] = Hyper /\ f[i + 1] = Full)

\* (5) once "Index" appears, the remaining formats to the right must be
\*     "Index" or "Full".
Rule5(f) ==
    \A i \in 1..Len(f) : f[i] = Index => \A j \in (i + 1)..Len(f) : f[j] \in {Index, Full}

LegalByRules(f) == Rule1(f) /\ Rule2(f) /\ Rule3(f) /\ Rule4(f) /\ Rule5(f)

\* The rules that the adjacent pair (a, b) violates on its own.
PairRules_merged(a, b) ==
    (IF a = Full /\ b # Full THEN {1} ELSE {})
    \cup (IF a \in {Sparse, Hyper} /\ b = Full THEN {3} ELSE {})
    \cup (IF a = Index /\ b \in {Sparse, Hyper} THEN {5} ELSE {})

PairRules(a, b) ==
    {r \in {1, 3, 4, 5} :
        \/ r = 1 /\ ~Rule1(<<a, b>>)
        \/ r = 3 /\ ~Rule3(<<a, b>>)
        \/ r = 4 /\ ~Rule4(<<a, b>>)
        \/ r = 5 /\ ~Rule5(<<a, b>>)}

(***************************************************************************)
(* LANGUAGE OF VALID FORMATS: the finite-state machine of the five rules.  *)
(* Sparse and Hyper (pointer present) may be followed by Sparse, Hyper or  *)
(* Index; Index by Index or Full; Full by Full only.  The start may be any *)
(* of the four formats and the end must be Index or Full; rank 0 (a        *)
(* scalar, no arrays present) is the empty sequence.                       *)
(***************************************************************************)
Start == "Start"
AfterPointerAxis == "AfterPointerAxis"
AfterIndex == "AfterIndex"
AfterFull == "AfterFull"
Reject == "Reject"

AcceptStates == {AfterIndex, AfterFull, Start}

StateOf(sym) ==
    CASE sym \in {Sparse, Hyper} -> AfterPointerAxis
      [] sym = Index -> AfterIndex
      [] sym = Full -> AfterFull

Delta_fullAfterPointer(s, sym) ==
    CASE s = Start -> StateOf(sym)
      [] s = AfterPointerAxis -> StateOf(sym)
      [] s = AfterIndex -> IF sym \in {Index, Full} THEN StateOf(sym) ELSE Reject
      [] s = AfterFull -> IF sym = Full THEN AfterFull ELSE Reject

Delta(s, sym) ==
    CASE s = Start -> StateOf(sym)
      [] s = AfterPointerAxis -> IF sym \in {Sparse, Hyper, Index} THEN StateOf(sym) ELSE Reject
      [] s = AfterIndex -> IF sym \in {Index, Full} THEN StateOf(sym) ELSE Reject
      [] s = AfterFull -> IF sym = Full THEN AfterFull ELSE Reject

\* The rule a rejected transition out of state s is tagged with; left is the
\* format of the axis just before the rejected one.
RuleOfRejection(s, left, sym) ==
    CASE s = AfterFull -> 1
      [] s = AfterIndex -> 5
      [] s = AfterPointerAxis -> IF left = Sparse THEN 3 ELSE 4

NoReport == [axisIndex |-> -1, left |-> "none", right |-> "none", rule |-> 0]
EndOfSequence == "end"

(***************************************************************************)
(* The validator, one axis per step.                                       *)
(***************************************************************************)
InitValidator ==
    /\ formats \in SeqsUpTo(AxisFormat, MaxRank)
    /\ pos = 0
    /\ state = Start
    /\ verdict = "running"
    /\ report = NoReport

\* consume axis pos (0-based); a rejected transition ends the run with a
\* report of the pair (pos-1, pos)
ValidatorStep ==
    /\ verdict = "running"
    /\ pos < Len(formats)
    /\ LET sym == formats[pos + 1]
           next == Delta(state, sym)
       IN IF next # Reject
          THEN /\ state' = next
               /\ pos' = pos + 1
               /\ UNCHANGED <<verdict, report>>
          ELSE /\ verdict' = "reject"
               /\ report' = [axisIndex |-> pos - 1,
                             left |-> formats[pos],
                             right |-> sym,
                             rule |-> RuleOfRejection(state, formats[pos], sym)]
               /\ UNCHANGED <<state, pos>>
    /\ UNCHANGED <<formats, axisVars, converterVars, resolverVars,
                 checkedVars, tensorVars, hdf5Vars>>

\* end of the sequence: accept in an accept state, else rule 2 on the last axis
ValidatorEnd ==
    /\ verdict = "running"
    /\ pos = Len(formats)
    /\ IF state \in AcceptStates
       THEN /\ verdict' = "accept"
            /\ UNCHANGED report
       ELSE /\ verdict' = "reject"
            /\ report' = [axisIndex |-> pos - 1,
                          left |-> formats[pos],
                          right |-> EndOfSequence,
                          rule |-> 2]
    /\ UNCHANGED <<formats, pos, state, axisVars, converterVars, resolverVars,
                 checkedVars, tensorVars, hdf5Vars>>

(***************************************************************************)
(* Axis descriptors (bc_axis_struct) and their classification.             *)
(***************************************************************************)
IdleAxis ==
    [order |-> 0, dimension |-> 0, in_order |-> TRUE,
     pointer |-> NULL, index |-> NULL, nindex |-> 0]

AxisBuffers == SeqsUpTo(0..MaxAxisDim, MaxAxisDim)

bc_axis_struct ==
    [order : 0..1, dimension : 0..MaxAxisDim, in_order : BOOLEAN,
     pointer : AxisBuffers \cup {NULL}, index : AxisBuffers \cup {NULL},
     nindex : 0..MaxAxisDim]

InitAxis ==
    /\ axis \in bc_axis_struct
    /\ fmt = "none"

Classify ==
    /\ fmt = "none"
    /\ fmt' = classify(axis)
    /\ UNCHANGED <<axis, validatorVars, converterVars, resolverVars,
                 checkedVars, tensorVars, hdf5Vars>>

(***************************************************************************)
(* The formats enumerated for rank 2 ("I think there are only 5") and for  *)
(* rank 3 ("12 possible formats").                                         *)
(***************************************************************************)
Rank2Formats ==
    {<<Index, Index>>, <<Sparse, Index>>, <<Hyper, Index>>,
     <<Full, Full>>, <<Index, Full>>}

Rank3Formats ==
    {<<Index, Index, Index>>,
     <<Hyper, Index, Index>>, <<Hyper, Hyper, Index>>, <<Hyper, Sparse, Index>>,
     <<Sparse, Index, Index>>, <<Sparse, Hyper, Index>>, <<Sparse, Sparse, Index>>,
     <<Index, Index, Full>>, <<Index, Full, Full>>,
     <<Hyper, Index, Full>>,
     <<Sparse, Index, Full>>,
     <<Full, Full, Full>>}

(***************************************************************************)
(* Properties of the validator.                                            *)
(***************************************************************************)
ViolatedRules(f) ==
    {r \in 1..5 :
        \/ r = 1 /\ ~Rule1(f)
        \/ r = 2 /\ ~Rule2(f)
        \/ r = 3 /\ ~Rule3(f)
        \/ r = 4 /\ ~Rule4(f)
        \/ r = 5 /\ ~Rule5(f)}

\* C1: once the automaton has decided, it has accepted exactly the sequences
\* (of length 0..MaxRank) that satisfy all of rules 1-5, and it decided in
\* one of its four states; the empty rank-0 sequence is accepted.
C1_GrammarCorrectness ==
    /\ state \in {Start, AfterPointerAxis, AfterIndex, AfterFull}
    /\ verdict # "running" =>
          /\ (verdict = "accept") <=> LegalByRules(formats)
          /\ (verdict = "accept") <=> (pos = Len(formats) /\ state \in AcceptStates)
          /\ formats = <<>> => verdict = "accept"

C1_Witness ==
    /\ verdict = "accept"
    /\ formats = <<Sparse, Hyper, Index, Full>>
    /\ state = AfterFull

\* C2: a rejection reports the first position at which a rule is violated:
\* the leftmost adjacent pair of formats that violates a rule, tagged with
\* the one rule that pair violates (3 for (Sparse, Full), 4 for (Hyper,
\* Full), 5 for (Index, Sparse)), or, when no adjacent pair violates a rule,
\* the last axis tagged with rule 2.  The rule reported is one the sequence
\* violates and no other rule is violated at that position.
C2_RejectionReport ==
    verdict = "reject" =>
        LET k == report.axisIndex + 1
        IN /\ report.rule \in ViolatedRules(formats)
           /\ k \in 1..Len(formats)
           /\ report.left = formats[k]
           /\ \A i \in 1..(k - 1) : PairRules(formats[i], formats[i + 1]) = {}
           /\ IF report.right = EndOfSequence
              THEN /\ report.rule = 2
                   /\ k = Len(formats)
              ELSE /\ k < Len(formats)
                   /\ report.right = formats[k + 1]
                   /\ PairRules(report.left, report.right) = {report.rule}
           /\ formats = <<Sparse, Full>> => report.rule = 3 /\ report.axisIndex = 0
           /\ formats = <<Hyper, Full>> => report.rule = 4 /\ report.axisIndex = 0
           /\ formats = <<Index, Sparse>> => report.rule = 5 /\ report.axisIndex = 0

\* a rejected sequence that violates three rules at once (1, 2 and 4)
C2_Witness ==
    /\ verdict = "reject"
    /\ formats = <<Hyper, Full, Sparse>>
    /\ Cardinality(ViolatedRules(formats)) = 3
    /\ report.rule = 4

\* C3: of the 16 rank-2 sequences exactly the 5 enumerated ones satisfy
\* rules 1-5, and of the 64 rank-3 sequences exactly the 12 enumerated ones.
C3_EnumeratedFormats ==
    /\ Cardinality(Rank2Formats) = 5
    /\ Cardinality(Rank3Formats) = 12
    /\ Len(formats) = 2 => (LegalByRules(formats) <=> formats \in Rank2Formats)
    /\ Len(formats) = 3 => (LegalByRules(formats) <=> formats \in Rank3Formats)

C3_Witness ==
    /\ formats = <<Hyper, Sparse, Index>>
    /\ formats \in Rank3Formats
    /\ verdict = "accept"

(***************************************************************************)
(* Properties of classify.                                                 *)
(***************************************************************************)
\* C4: classify maps (pointer absent, index absent) to Full, (present,
\* absent) to Sparse, (present, present) to Hyper and (absent, present) to
\* Index, and the result is the same whatever the order, dimension,
\* in_order, nindex and buffer contents of the axis.
C4_ClassifyTable ==
    fmt # "none" =>
        /\ (axis.pointer = NULL /\ axis.index = NULL) => fmt = Full
        /\ (axis.pointer # NULL /\ axis.index = NULL) => fmt = Sparse
        /\ (axis.pointer # NULL /\ axis.index # NULL) => fmt = Hyper
        /\ (axis.pointer = NULL /\ axis.index # NULL) => fmt = Index
        /\ \A o \in 0..1 : classify([axis EXCEPT !.order = o]) = fmt
        /\ \A d \in 0..MaxAxisDim : classify([axis EXCEPT !.dimension = d]) = fmt
        /\ \A b \in BOOLEAN : classify([axis EXCEPT !.in_order = b]) = fmt
        /\ \A n \in 0..MaxAxisDim : classify([axis EXCEPT !.nindex = n]) = fmt
        /\ axis.pointer # NULL =>
              \A p \in AxisBuffers : classify([axis EXCEPT !.pointer = p]) = fmt
        /\ axis.index # NULL =>
              \A x \in AxisBuffers : classify([axis EXCEPT !.index = x]) = fmt

\* a Hyper axis classified although it holds no index entry and is flagged
\* out of order
C4_Witness ==
    /\ fmt = Hyper
    /\ axis.nindex = 0
    /\ axis.index = <<>>
    /\ axis.in_order = FALSE

(***************************************************************************)
(* The bc_matrix: rank, iso_valued, axis [0..rank-1], values, nvals.       *)
(* Sequences are 1-based: axis [k] of the header is d.axis[k + 1], entry p *)
(* of a buffer is buffer[p + 1]; indices and pointers hold 0-based values. *)
(***************************************************************************)
bc_axis(order, dimension, in_order, pointer, index, nindex) ==
    [order |-> order, dimension |-> dimension, in_order |-> in_order,
     pointer |-> pointer, index |-> index, nindex |-> nindex]

bc_matrix(iso_valued, axes, values, nvals) ==
    [rank |-> Len(axes), iso_valued |-> iso_valued, axis |-> axes,
     values |-> values, nvals |-> nvals]

NoMatrix == [rank |-> -1, iso_valued |-> FALSE, axis |-> <<>>, values |-> <<>>, nvals |-> 0]

\* the values a matrix may hold, and the value a densifying conversion
\* gives to an entry the source does not store
Values == {5, 7}
FillValue == 0

FormatsOf(d) == [k \in 1..Len(d.axis) |-> classify(d.axis[k])]

\* every matrix taken to be stored by-row
OrderOf_byRow(d) == <<0, 1>>

OrderOf(d) == [k \in 1..Len(d.axis) |-> d.axis[k].order]

\* by-row: axis[0:1].order = {0, 1}; by-column: {1, 0}
ByRow == <<0, 1>>
ByCol == <<1, 0>>

\* the logical dimensions <<m, n>> of a rank-2 matrix:
\* axis[0:1].dim = {m, n} if by row, {n, m} if by col
LogicalDims(d) ==
    IF d.axis[1].order = 0
    THEN <<d.axis[1].dimension, d.axis[2].dimension>>
    ELSE <<d.axis[2].dimension, d.axis[1].dimension>>

NonDecreasing(s) == \A i \in 1..(Len(s) - 1) : s[i] <= s[i + 1]
StrictlyAscending(s) == \A i \in 1..(Len(s) - 1) : s[i] < s[i + 1]

\* the object of a pointer axis that slot p (1-based) of the next axis
\* belongs to: pointer[g] <= p - 1 < pointer[g + 1]
Group(pointer, p) ==
    CHOOSE g \in 1..(Len(pointer) - 1) : pointer[g] < p /\ p <= pointer[g + 1]

\* index [1] in order: ascending within each object of axis 0
SegmentsInOrder(seg, idx) ==
    \A p \in 1..(Len(idx) - 1) : seg[p] = seg[p + 1] => idx[p] < idx[p + 1]

PointerSegments(pointer, n) == [p \in 1..n |-> Group(pointer, p)]

(***************************************************************************)
(* The named rank-2 layouts of the header, as built from raw buffers.      *)
(* outer is the by-row or by-column order; d0 and d1 are the dimensions of *)
(* axis 0 and axis 1 in that order; ind0, ptr and ind1 are the raw arrays  *)
(* (row_ptr / col_ptr, rowind / colind of csr_matrix, csc_matrix and       *)
(* coo_matrix).                                                            *)
(***************************************************************************)
\* COO with the two index arrays exchanged
COO_swapped(outer, d0, d1, ind0, ind1, iso, values) ==
    bc_matrix(iso,
        <<bc_axis(outer[1], d0, NonDecreasing(ind1), NULL, ind1, Len(ind1)),
          bc_axis(outer[2], d1, SegmentsInOrder(ind1, ind0), NULL, ind0, Len(ind0))>>,
        values, Len(ind1))

\* COO that replicates the single value of an iso-valued matrix
COO_replicated(outer, d0, d1, ind0, ind1, iso, values) ==
    bc_matrix(FALSE,
        <<bc_axis(outer[1], d0, NonDecreasing(ind0), NULL, ind0, Len(ind0)),
          bc_axis(outer[2], d1, SegmentsInOrder(ind0, ind1), NULL, ind1, Len(ind1))>>,
        IF iso THEN [p \in 1..Len(ind1) |-> values[1]] ELSE values, Len(ind1))

\* COO: Format is (Index, Index)
COO(outer, d0, d1, ind0, ind1, iso, values) ==
    bc_matrix(iso,
        <<bc_axis(outer[1], d0, NonDecreasing(ind0), NULL, ind0, Len(ind0)),
          bc_axis(outer[2], d1, SegmentsInOrder(ind0, ind1), NULL, ind1, Len(ind1))>>,
        values, Len(ind1))

\* CSR, CSC: Format is (Sparse, Index)
CS_nindex(outer, d0, d1, ptr, ind1, iso, values) ==
    bc_matrix(iso,
        <<bc_axis(outer[1], d0, TRUE, ptr, NULL, Len(ind1)),
          bc_axis(outer[2], d1,
                  SegmentsInOrder(PointerSegments(ptr, Len(ind1)), ind1),
                  NULL, ind1, Len(ind1))>>,
        values, Len(ind1))

CS(outer, d0, d1, ptr, ind1, iso, values) ==
    bc_matrix(iso,
        <<bc_axis(outer[1], d0, TRUE, ptr, NULL, d0),
          bc_axis(outer[2], d1,
                  SegmentsInOrder(PointerSegments(ptr, Len(ind1)), ind1),
                  NULL, ind1, Len(ind1))>>,
        values, Len(ind1))

\* DCSR, DCSC: Format is (Hyper, Index)
DCS(outer, d0, d1, ind0, ptr, ind1, iso, values) ==
    bc_matrix(iso,
        <<bc_axis(outer[1], d0, TRUE, ptr, ind0, Len(ind0)),
          bc_axis(outer[2], d1,
                  SegmentsInOrder(PointerSegments(ptr, Len(ind1)), ind1),
                  NULL, ind1, Len(ind1))>>,
        values, Len(ind1))

\* nvals counts the rows only
FullMatrix_rows(outer, d0, d1, iso, values) ==
    bc_matrix(iso,
        <<bc_axis(outer[1], d0, TRUE, NULL, NULL, d0),
          bc_axis(outer[2], d1, TRUE, NULL, NULL, d1)>>,
        values, d0)

\* full: Format is (Full, Full); nvals = m*n
FullMatrix(outer, d0, d1, iso, values) ==
    bc_matrix(iso,
        <<bc_axis(outer[1], d0, TRUE, NULL, NULL, d0),
          bc_axis(outer[2], d1, TRUE, NULL, NULL, d1)>>,
        values, d0 * d1)

\* Index-Full: Format is (Index, Full); nvals = nindex [0] * dim [1]
IndexFull(outer, d0, d1, ind0, iso, values) ==
    bc_matrix(iso,
        <<bc_axis(outer[1], d0, TRUE, NULL, ind0, Len(ind0)),
          bc_axis(outer[2], d1, TRUE, NULL, NULL, d1)>>,
        values, Len(ind0) * d1)

\* rank 1: sparse vector (Index) and full vector (Full); rank 0: a scalar
SparseVector(n, ind0, iso, values) ==
    bc_matrix(iso, <<bc_axis(0, n, StrictlyAscending(ind0), NULL, ind0, Len(ind0))>>,
              values, Len(ind0))

FullVector(n, iso, values) ==
    bc_matrix(iso, <<bc_axis(0, n, TRUE, NULL, NULL, n)>>, values, n)

Scalar(values) == bc_matrix(FALSE, <<>>, values, Len(values))

(***************************************************************************)
(* Construction requests: a named format, the logical dimensions m-by-n    *)
(* and the raw buffers (values, rowind, colind and row_ptr / col_ptr of    *)
(* coo_matrix, csr_matrix, csc_matrix and dense_matrix; NULL when the      *)
(* format has no such buffer).                                             *)
(***************************************************************************)
Arrays(n, dim) == [1..n -> 0..(dim - 1)]

Pointers(k, nnz) ==
    {p \in [1..(k + 1) -> 0..nnz] : p[1] = 0 /\ p[k + 1] = nnz /\ NonDecreasing(p)}

\* lists of distinct indices below dim, in any order / in ascending order
DistinctLists(dim) ==
    {s \in SeqsUpTo(0..(dim - 1), dim) : \A i, j \in 1..Len(s) : i # j => s[i] # s[j]}

AscendingLists(dim) == {s \in DistinctLists(dim) : StrictlyAscending(s)}

\* value buffers for nvals entries: nvals values, or a single iso value.
\* Nothing reads a value but to copy or compare it, so the two values are
\* interchangeable and a buffer of explicit values starts with the first.
ValueBuffers(nvals) ==
    {[iso |-> FALSE, values |-> a] :
        a \in {b \in [1..nvals -> Values] : nvals > 0 => b[1] = 5}}
    \cup {[iso |-> TRUE, values |-> <<v>>] : v \in Values}

Request(name, order, m, n, ptr, rowind, colind, vb, pattern) ==
    [name |-> name, order |-> order, m |-> m, n |-> n, ptr |-> ptr,
     rowind |-> rowind, colind |-> colind,
     iso |-> vb.iso, values |-> vb.values, pattern |-> pattern]

NoRequest ==
    [name |-> "none", order |-> ByRow, m |-> 0, n |-> 0, ptr |-> NULL,
     rowind |-> NULL, colind |-> NULL, iso |-> FALSE, values |-> <<>>,
     pattern |-> NULL]

Dims == 0..MaxDim
Orders == {ByRow, ByCol}

COORequests(dims) ==
    UNION {{Request("COO", order, m, n, NULL, rowind, colind, vb, NULL) :
                rowind \in Arrays(nnz, m), colind \in Arrays(nnz, n),
                vb \in ValueBuffers(nnz)} :
           order \in Orders, m \in dims, n \in dims, nnz \in 0..MaxNnz}

CSRRequests(dims) ==
    UNION {{Request("CSR", ByRow, m, n, ptr, NULL, colind, vb, NULL) :
                ptr \in Pointers(m, nnz), colind \in Arrays(nnz, n),
                vb \in ValueBuffers(nnz)} :
           m \in dims, n \in dims, nnz \in 0..MaxNnz}

CSCRequests(dims) ==
    UNION {{Request("CSC", ByCol, m, n, ptr, rowind, NULL, vb, NULL) :
                ptr \in Pointers(n, nnz), rowind \in Arrays(nnz, m),
                vb \in ValueBuffers(nnz)} :
           m \in dims, n \in dims, nnz \in 0..MaxNnz}

DCSRRequests(dims) ==
    UNION {{Request("DCSR", ByRow, m, n, ptr, rows, colind, vb, NULL) :
                ptr \in Pointers(Len(rows), nnz), colind \in Arrays(nnz, n),
                vb \in ValueBuffers(nnz)} :
           m \in dims, n \in dims, nnz \in 0..MaxNnz, rows \in AscendingLists(MaxDim)}

DCSCRequests(dims) ==
    UNION {{Request("DCSC", ByCol, m, n, ptr, rowind, cols, vb, NULL) :
                ptr \in Pointers(Len(cols), nnz), rowind \in Arrays(nnz, m),
                vb \in ValueBuffers(nnz)} :
           m \in dims, n \in dims, nnz \in 0..MaxNnz, cols \in AscendingLists(MaxDim)}

FullRequests(dims) ==
    UNION {{Request(IF order = ByRow THEN "Full_row" ELSE "Full_col",
                    order, m, n, NULL, NULL, NULL, vb, NULL) :
                vb \in ValueBuffers(m * n)} :
           order \in Orders, m \in dims, n \in dims}

IndexFullRowRequests(dims) ==
    UNION {{Request("IndexFull_row", ByRow, m, n, NULL, rows, NULL, vb, NULL) :
                vb \in ValueBuffers(Len(rows) * n)} :
           m \in dims, n \in dims, rows \in AscendingLists(MaxDim)}

IndexFullColRequests(dims) ==
    UNION {{Request("IndexFull_col", ByCol, m, n, NULL, NULL, cols, vb, NULL) :
                vb \in ValueBuffers(Len(cols) * m)} :
           m \in dims, n \in dims, cols \in AscendingLists(MaxDim)}

\* bitmap: a bool pattern (held as uint8_t) and the values, both m*n long
BitmapRequests(dims) ==
    UNION {{Request("bitmap", order, m, n, NULL, NULL, NULL, vb, pattern) :
                vb \in ValueBuffers(m * n), pattern \in [1..(m * n) -> {0, 1}]} :
           order \in Orders, m \in dims, n \in dims}

InRange(s, dim) == \A i \in 1..Len(s) : s[i] < dim

MatrixNames ==
    {"COO", "CSR", "CSC", "DCSR", "DCSC", "Full_row", "Full_col",
     "IndexFull_row", "IndexFull_col"}

\* the requests for a named format whose raw index lists fit the dimensions
RequestsFor(name) ==
    LET all == CASE name = "COO" -> COORequests(Dims)
                 [] name = "CSR" -> CSRRequests(Dims)
                 [] name = "CSC" -> CSCRequests(Dims)
                 [] name = "DCSR" -> DCSRRequests(Dims)
                 [] name = "DCSC" -> DCSCRequests(Dims)
                 [] name \in {"Full_row", "Full_col"} ->
                       {r \in FullRequests(Dims) : r.name = name}
                 [] name = "IndexFull_row" -> IndexFullRowRequests(Dims)
                 [] name = "IndexFull_col" -> IndexFullColRequests(Dims)
                 [] name = "bitmap" -> BitmapRequests(0..MaxBitmapDim)
    IN {r \in all :
           /\ r.rowind # NULL => InRange(r.rowind, r.m)
           /\ r.colind # NULL => InRange(r.colind, r.n)}

(***************************************************************************)
(* Named-format resolver.                                                  *)
(***************************************************************************)
\* toGeneric: the bc_matrix objects (one, or two for bitmap) of a request
toGeneric(r) ==
    CASE r.name = "COO" ->
            IF r.order = ByRow
            THEN <<COO(ByRow, r.m, r.n, r.rowind, r.colind, r.iso, r.values)>>
            ELSE <<COO(ByCol, r.n, r.m, r.colind, r.rowind, r.iso, r.values)>>
      [] r.name = "CSR" -> <<CS(ByRow, r.m, r.n, r.ptr, r.colind, r.iso, r.values)>>
      [] r.name = "CSC" -> <<CS(ByCol, r.n, r.m, r.ptr, r.rowind, r.iso, r.values)>>
      [] r.name = "DCSR" ->
            <<DCS(ByRow, r.m, r.n, r.rowind, r.ptr, r.colind, r.iso, r.values)>>
      [] r.name = "DCSC" ->
            <<DCS(ByCol, r.n, r.m, r.colind, r.ptr, r.rowind, r.iso, r.values)>>
      [] r.name = "Full_row" -> <<FullMatrix(ByRow, r.m, r.n, r.iso, r.values)>>
      [] r.name = "Full_col" -> <<FullMatrix(ByCol, r.n, r.m, r.iso, r.values)>>
      [] r.name = "IndexFull_row" ->
            <<IndexFull(ByRow, r.m, r.n, r.rowind, r.iso, r.values)>>
      [] r.name = "IndexFull_col" ->
            <<IndexFull(ByCol, r.n, r.m, r.colind, r.iso, r.values)>>
      [] r.name = "bitmap" ->
            LET d0 == IF r.order = ByRow THEN r.m ELSE r.n
                d1 == IF r.order = ByRow THEN r.n ELSE r.m
            IN <<FullMatrix(r.order, d0, d1, FALSE, r.pattern),
                 FullMatrix(r.order, d0, d1, r.iso, r.values)>>

NoName == "none"

\* fromGeneric: the name of a bc_matrix, by its formats and axis order
fromGeneric(d) ==
    IF d.rank # 2 THEN NoName
    ELSE LET f == FormatsOf(d)
             byRow == OrderOf(d) = ByRow
         IN CASE f = <<Index, Index>> -> "COO"
              [] f = <<Sparse, Index>> -> IF byRow THEN "CSR" ELSE "CSC"
              [] f = <<Hyper, Index>> -> IF byRow THEN "DCSR" ELSE "DCSC"
              [] f = <<Full, Full>> -> IF byRow THEN "Full_row" ELSE "Full_col"
              [] f = <<Index, Full>> -> IF byRow THEN "IndexFull_row" ELSE "IndexFull_col"
              [] OTHER -> NoName

(***************************************************************************)
(* The invariants of a bc_matrix.                                          *)
(***************************************************************************)
\* the number of positions the first k axes describe: a Full axis multiplies
\* the count by its dimension, an Index axis lists nindex positions, a
\* pointer axis ends at the count of the axis to its right
RECURSIVE Positions(_, _)
Positions(d, k) ==
    IF k = 0 THEN 1
    ELSE CASE classify(d.axis[k]) = Full -> Positions(d, k - 1) * d.axis[k].dimension
           [] classify(d.axis[k]) = Index -> d.axis[k].nindex
           [] OTHER -> IF k < d.rank THEN d.axis[k + 1].nindex ELSE d.nvals

\* the number of value slots the axes describe
SlotCount(d) == IF d.rank = 0 THEN Len(d.values) ELSE Positions(d, d.rank)

\* what pointer [k] must end with: nindex of the axis to its right, or nvals
RightCount(d, k) == IF k < d.rank THEN d.axis[k + 1].nindex ELSE d.nvals

ValidPointer(p, n, last) ==
    /\ Len(p) = n + 1
    /\ p[1] = 0
    /\ NonDecreasing(p)
    /\ p[n + 1] = last

ValidIndex(x, n, dim) ==
    /\ Len(x) = n
    /\ \A i \in 1..n : x[i] \in 0..(dim - 1)

ValidAxis(d, k) ==
    LET a == d.axis[k]
        f == classify(a)
    IN CASE f = Full -> a.in_order /\ a.nindex = a.dimension
         [] f = Sparse ->
               /\ a.in_order
               /\ a.nindex = a.dimension
               /\ ValidPointer(a.pointer, a.dimension, RightCount(d, k))
         [] f = Hyper ->
               /\ a.in_order
               /\ ValidIndex(a.index, a.nindex, a.dimension)
               /\ StrictlyAscending(a.index)
               /\ ValidPointer(a.pointer, a.nindex, RightCount(d, k))
         [] f = Index ->
               /\ ValidIndex(a.index, a.nindex, a.dimension)
               /\ (k > 1 /\ classify(d.axis[k - 1]) = Index)
                     => a.nindex = d.axis[k - 1].nindex

ValidDescriptor(d) ==
    /\ d.rank = Len(d.axis)
    /\ {d.axis[k].order : k \in 1..d.rank} = 0..(d.rank - 1)
    /\ LegalByRules(FormatsOf(d))
    /\ \A k \in 1..d.rank : ValidAxis(d, k)
    /\ d.nvals = SlotCount(d)
    /\ Len(d.values) = (IF d.iso_valued THEN 1 ELSE d.nvals)

(***************************************************************************)
(* The entries a rank-2 bc_matrix stores, in storage order.                *)
(***************************************************************************)
\* the coordinate of value slot p (1-based) along storage axis k
Coord(d, k, p) ==
    LET f0 == classify(d.axis[1])
        f1 == classify(d.axis[2])
        dim1 == d.axis[2].dimension
    IN IF k = 2
       THEN (IF f1 = Index THEN d.axis[2].index[p] ELSE (p - 1) % dim1)
       ELSE CASE f0 = Full -> (p - 1) \div dim1
              [] f0 = Index ->
                    IF f1 = Index THEN d.axis[1].index[p]
                    ELSE d.axis[1].index[((p - 1) \div dim1) + 1]
              [] f0 = Sparse -> Group(d.axis[1].pointer, p) - 1
              [] f0 = Hyper -> d.axis[1].index[Group(d.axis[1].pointer, p)]

\* values [0] for every entry if iso, else values [p]
ValueAt(d, p) == IF d.iso_valued THEN d.values[1] ELSE d.values[p]

\* entry p read as if every matrix were stored by-row
Entry_storageOrder(d, p) ==
    [coord |-> <<Coord(d, 1, p), Coord(d, 2, p)>>, v |-> ValueAt(d, p)]

\* entry p as (logical <<row, col>>, value)
Entry(d, p) ==
    LET c0 == Coord(d, 1, p)
        c1 == Coord(d, 2, p)
    IN [coord |-> IF d.axis[1].order = 0 THEN <<c0, c1>> ELSE <<c1, c0>>,
        v |-> ValueAt(d, p)]

Entries(d) == [p \in 1..d.nvals |-> Entry(d, p)]

EntrySet(d) == {Entry(d, p) : p \in 1..d.nvals}

CoordSet(d) == {Entry(d, p).coord : p \in 1..d.nvals}

(***************************************************************************)
(* Format converter: canonicalize the source to its list of (coordinate    *)
(* tuple, value) pairs, re-group the list into the target's nesting with a *)
(* stable counting pass on the leading target coordinate, and re-derive    *)
(* the pointer, index and value buffers of the target layout.              *)
(***************************************************************************)
RECURSIVE SortedList(_)
SortedList(S) ==
    IF S = {} THEN <<>>
    ELSE LET x == CHOOSE y \in S : \A z \in S : y <= z
         IN <<x>> \o SortedList(S \ {x})

\* bucket sort of the entries E by coordinate lead (1 = row, 2 = col), for
\* the coordinates i..n-1, keeping the entries of a bucket in their order
RECURSIVE Buckets(_, _, _, _)
Buckets(E, lead, i, n) ==
    IF i >= n THEN <<>>
    ELSE LET InBucket(e) == e.coord[lead] = i
         IN SelectSeq(E, InBucket) \o Buckets(E, lead, i + 1, n)

\* pointer offsets: the number of entries whose leading coordinate is below c
Offset(E, lead, c) == Cardinality({p \in 1..Len(E) : E[p].coord[lead] < c})

\* the value a full target stores at <<c0, c1>>: that of the last entry
\* written there, FillValue if the source stores none
SlotValue(E, lead, other, c0, c1) ==
    LET at == {p \in 1..Len(E) : E[p].coord[lead] = c0 /\ E[p].coord[other] = c1}
    IN IF at = {} THEN FillValue
       ELSE E[CHOOSE p \in at : \A q \in at : q <= p].v

\* an iso-valued input stays iso-valued (the single value is reused) unless
\* the entry count of the target differs from that of the source
IsoOut(d, count) == d.iso_valued /\ count = d.nvals

ValuesOut(d, materialized) ==
    IF IsoOut(d, Len(materialized)) THEN d.values ELSE materialized

convert(d, targetAxisFormats, targetOrder) ==
    LET E == Entries(d)
        dims == LogicalDims(d)
        lead == targetOrder[1] + 1
        other == targetOrder[2] + 1
        d0 == dims[lead]
        d1 == dims[other]
        G == Buckets(E, lead, 0, d0)
        present == SortedList({E[p].coord[lead] : p \in 1..Len(E)})
    IN CASE targetAxisFormats = <<Index, Index>> ->
              COO(targetOrder, d0, d1,
                  [p \in 1..Len(E) |-> E[p].coord[lead]],
                  [p \in 1..Len(E) |-> E[p].coord[other]],
                  IsoOut(d, Len(E)),
                  ValuesOut(d, [p \in 1..Len(E) |-> E[p].v]))
         [] targetAxisFormats = <<Sparse, Index>> ->
              CS(targetOrder, d0, d1,
                 [i \in 1..(d0 + 1) |-> Offset(E, lead, i - 1)],
                 [p \in 1..Len(G) |-> G[p].coord[other]],
                 IsoOut(d, Len(G)),
                 ValuesOut(d, [p \in 1..Len(G) |-> G[p].v]))
         [] targetAxisFormats = <<Hyper, Index>> ->
              DCS(targetOrder, d0, d1,
                  present,
                  [j \in 1..(Len(present) + 1) |->
                      IF j <= Len(present) THEN Offset(E, lead, present[j])
                      ELSE Len(E)],
                  [p \in 1..Len(G) |-> G[p].coord[other]],
                  IsoOut(d, Len(G)),
                  ValuesOut(d, [p \in 1..Len(G) |-> G[p].v]))
         [] targetAxisFormats = <<Full, Full>> ->
              LET full == [p \in 1..(d0 * d1) |->
                              SlotValue(E, lead, other, (p - 1) \div d1, (p - 1) % d1)]
              IN FullMatrix(targetOrder, d0, d1, IsoOut(d, Len(full)), ValuesOut(d, full))
         [] targetAxisFormats = <<Index, Full>> ->
              LET full == [p \in 1..(Len(present) * d1) |->
                              SlotValue(E, lead, other,
                                        present[((p - 1) \div d1) + 1], (p - 1) % d1)]
              IN IndexFull(targetOrder, d0, d1, present,
                           IsoOut(d, Len(full)), ValuesOut(d, full))

\* the domain of convert: legal target formats of the rank of the source
Targets == {t \in [formats : Rank2Formats, order : Orders] : LegalByRules(t.formats)}

NoTarget == [formats |-> <<>>, order |-> <<>>]

InitConverter ==
    /\ \E name \in MatrixNames : \E r \in RequestsFor(name) : src = toGeneric(r)[1]
    /\ mid = NoMatrix
    /\ back = NoMatrix
    /\ target = NoTarget

\* convert the source to any legal target of its rank
ConvertTo ==
    /\ mid = NoMatrix
    /\ \E t \in Targets :
          /\ target' = t
          /\ mid' = convert(src, t.formats, t.order)
    /\ UNCHANGED <<src, back, validatorVars, axisVars, resolverVars,
                 checkedVars, tensorVars, hdf5Vars>>

\* convert the result back to the format and order of the source
ConvertBack ==
    /\ mid # NoMatrix
    /\ back = NoMatrix
    /\ back' = convert(mid, FormatsOf(src), OrderOf(src))
    /\ UNCHANGED <<src, mid, target, validatorVars, axisVars, resolverVars,
                 checkedVars, tensorVars, hdf5Vars>>

(***************************************************************************)
(* The concrete scenario: a 3x3 COO tensor holding (row, col, val) =       *)
(* (0,1,5), (2,0,7), (2,2,9), inserted in any order, converted to CSR and  *)
(* back to COO.                                                            *)
(***************************************************************************)
ScenarioDim == 3
ScenarioEntries == <<<<0, 1, 5>>, <<2, 0, 7>>, <<2, 2, 9>>>>
CSRTarget == [formats |-> <<Sparse, Index>>, order |-> ByRow]

InitScenario ==
    /\ \E k \in 0..MaxInsertions : \E pick \in [1..k -> 1..Len(ScenarioEntries)] :
          src = toGeneric(Request("COO", ByRow, ScenarioDim, ScenarioDim, NULL,
                                  [p \in 1..k |-> ScenarioEntries[pick[p]][1]],
                                  [p \in 1..k |-> ScenarioEntries[pick[p]][2]],
                                  [iso |-> FALSE,
                                   values |-> [p \in 1..k |-> ScenarioEntries[pick[p]][3]]],
                                  NULL))[1]
    /\ mid = NoMatrix
    /\ back = NoMatrix
    /\ target = NoTarget

ScenarioToCSR ==
    /\ mid = NoMatrix
    /\ target' = CSRTarget
    /\ mid' = convert(src, CSRTarget.formats, CSRTarget.order)
    /\ UNCHANGED <<src, back, validatorVars, axisVars, resolverVars,
                 checkedVars, tensorVars, hdf5Vars>>

(***************************************************************************)
(* The resolver at work: a request is turned into its bc_matrix objects,   *)
(* or a bc_matrix of another rank is constructed directly; then the name   *)
(* of every object is looked up.                                           *)
(***************************************************************************)
\* rank 3, (Index, Index, Index): all COO; here with one index list
Tensor3COO(dim, ind, iso, values) ==
    bc_matrix(iso,
        <<bc_axis(0, dim, NonDecreasing(ind), NULL, ind, Len(ind)),
          bc_axis(1, dim, StrictlyAscending(ind), NULL, ind, Len(ind)),
          bc_axis(2, dim, StrictlyAscending(ind), NULL, ind, Len(ind))>>,
        values, Len(ind))

DirectDescriptors ==
    {Scalar(v) : v \in {<<>>} \cup {<<x>> : x \in Values}}
    \cup UNION {{FullVector(n, vb.iso, vb.values) : vb \in ValueBuffers(n)} : n \in Dims}
    \cup UNION {{SparseVector(MaxDim, ind, vb.iso, vb.values) : vb \in ValueBuffers(Len(ind))} :
                ind \in DistinctLists(MaxDim)}
    \cup UNION {{Tensor3COO(MaxDim, ind, vb.iso, vb.values) : vb \in ValueBuffers(Len(ind))} :
                ind \in DistinctLists(MaxDim)}

NotResolved == <<"unresolved">>

(***************************************************************************)
(* Properties of the converter.                                            *)
(***************************************************************************)
\* only the terminal rule is looked at
ValidatorAccepts_lastOnly(f) == f = <<>> \/ f[Len(f)] \in {Index, Full}

\* the verdict of the validator's automaton on a format sequence
RECURSIVE RunFrom(_, _)
RunFrom(s, f) ==
    IF s = Reject \/ f = <<>> THEN s ELSE RunFrom(Delta(s, Head(f)), Tail(f))

ValidatorAccepts(f) == RunFrom(Start, f) \in AcceptStates

\* what C5 asks of the descriptor d returned for target t
ClosedResult(d, t) ==
    /\ FormatsOf(d) = t.formats
    /\ OrderOf(d) = t.order
    /\ LogicalDims(d) = LogicalDims(src)
    /\ ValidatorAccepts(FormatsOf(d))
    /\ ValidDescriptor(d)
    /\ {d.axis[k].order : k \in 1..d.rank} = 0..(d.rank - 1)
    /\ \A k \in 1..d.rank :
          LET a == d.axis[k]
          IN /\ classify(a) \in {Sparse, Full} => a.nindex = a.dimension
             /\ classify(a) \in {Full, Sparse, Hyper} => a.in_order = TRUE
             /\ a.index # NULL => \A i \in 1..Len(a.index) : a.index[i] \in 0..(a.dimension - 1)

ConflictingDuplicates(d) ==
    \E p, q \in 1..d.nvals :
        Entry(d, p).coord = Entry(d, q).coord /\ Entry(d, p).v # Entry(d, q).v

LastAxisIndex(d) == classify(d.axis[d.rank]) = Index

\* C6 as stated: every (coordinate, value) pair the source stores is stored
\* with the same value in the converted descriptor, whatever the source and
\* the target.
C6_NoEntryLost ==
    mid # NoMatrix => EntrySet(src) \subseteq EntrySet(mid)

\* C6 amended: every (coordinate, value) pair of the source is stored with
\* the same value in the converted descriptor whenever the target's last
\* axis is Index (COO, CSR, CSC, DCSR, DCSC) or the source does not store
\* one coordinate twice with different values.
C6_NoEntryLostAmended ==
    (mid # NoMatrix /\ (LastAxisIndex(mid) \/ ~ConflictingDuplicates(src)))
        => EntrySet(src) \subseteq EntrySet(mid)

\* an unordered CSC source densified into a by-row full matrix
C6_Witness ==
    /\ fromGeneric(src) = "CSC"
    /\ src.nvals = 2
    /\ ~src.axis[2].in_order
    /\ ~ConflictingDuplicates(src)
    /\ mid # NoMatrix
    /\ fromGeneric(mid) = "Full_row"
    /\ mid.nvals = 4
    /\ EntrySet(src) \subseteq EntrySet(mid)
    /\ EntrySet(src) # EntrySet(mid)

(***************************************************************************)
(* Properties of the concrete scenario.                                    *)
(***************************************************************************)
TheScenario == EntrySet(src) = {[coord |-> <<0, 1>>, v |-> 5],
                                [coord |-> <<2, 0>>, v |-> 7],
                                [coord |-> <<2, 2>>, v |-> 9]}

\* the three entries inserted in the order they are listed
ListedOrder ==
    /\ src.axis[1].index = <<0, 2, 2>>
    /\ src.axis[2].index = <<1, 0, 2>>
    /\ src.values = <<5, 7, 9>>

\* sorted by row, and by column within a row
RowMajor(d) ==
    \A p \in 1..(d.nvals - 1) :
        \/ Entry(d, p).coord[1] < Entry(d, p + 1).coord[1]
        \/ /\ Entry(d, p).coord[1] = Entry(d, p + 1).coord[1]
           /\ Entry(d, p).coord[2] < Entry(d, p + 1).coord[2]

\* C7: COO to CSR gives row_ptr of length m+1 from 0 to nnz whose
\* differences count the entries of each row, with colind and values listed
\* row by row; the scenario's three entries give row_ptr = [0,1,1,3],
\* colind = [1,0,2], values = [5,7,9]; and converting back to COO gives the
\* three entries in row-major order for every insertion order of the three
\* entries.
C7_Scenario ==
    /\ mid # NoMatrix =>
          LET row_ptr == mid.axis[1].pointer
          IN /\ fromGeneric(mid) = "CSR"
             /\ Len(row_ptr) = ScenarioDim + 1
             /\ row_ptr[1] = 0
             /\ row_ptr[ScenarioDim + 1] = src.nvals
             /\ \A i \in 1..ScenarioDim :
                   row_ptr[i + 1] - row_ptr[i] =
                       Cardinality({p \in 1..src.nvals : src.axis[1].index[p] = i - 1})
             /\ NonDecreasing([p \in 1..mid.nvals |-> Entry(mid, p).coord[1]])
    /\ (mid # NoMatrix /\ ListedOrder) =>
          /\ mid.axis[1].pointer = <<0, 1, 1, 3>>
          /\ mid.axis[2].index = <<1, 0, 2>>
          /\ mid.values = <<5, 7, 9>>
    /\ (back # NoMatrix /\ src.nvals = 3 /\ TheScenario) =>
          /\ fromGeneric(back) = "COO"
          /\ EntrySet(back) = EntrySet(src)
          /\ RowMajor(back)

C9_IsoPreserved ==
    (src.iso_valued /\ FormatsOf(src) = <<Full, Full>>
        /\ mid # NoMatrix /\ target.formats = <<Index, Index>>) =>
        LET cells == LogicalDims(src)[1] * LogicalDims(src)[2]
        IN /\ mid.iso_valued
           /\ mid.values = src.values
           /\ Len(mid.values) = 1
           /\ Len(mid.axis[1].index) = cells
           /\ Len(mid.axis[2].index) = cells
           /\ mid.nvals = cells
           /\ back # NoMatrix =>
                 /\ back.iso_valued
                 /\ Len(back.values) = 1
                 /\ back.values = src.values
                 /\ LogicalDims(back) = LogicalDims(src)
                 /\ back = src

\* a 2x2 iso-valued full matrix taken through by-column COO and back
C9_Witness ==
    /\ src.iso_valued
    /\ fromGeneric(src) = "Full_row"
    /\ LogicalDims(src) = <<2, 2>>
    /\ fromGeneric(mid) = "COO"
    /\ OrderOf(mid) = ByCol
    /\ mid.nvals = 4
    /\ back # NoMatrix
    /\ back.iso_valued
    /\ back.values = <<7>>

(***************************************************************************)
(* Properties of the resolver.                                             *)
(***************************************************************************)
\* C10 as stated: for every entry of the mapping table, bitmap included,
\* fromGeneric of what toGeneric built returns the requested name; a legal
\* sequence with no name gives the empty result.
C10_ResolverBijection ==
    resolved # NotResolved =>
        IF request = NoRequest
        THEN resolved = <<NoName>>
        ELSE \A i \in 1..Len(resolved) : resolved[i] = request.name

\* C10 amended: for the nine named matrix formats (COO, CSR, CSC, DCSR,
\* DCSC, Full row-major and col-major, Index-Full by row and by col)
\* fromGeneric of what toGeneric built returns the requested name; the two
\* (Full, Full) tensors of a bitmap resolve to Full of the bitmap's order,
\* never to bitmap; a legal sequence with no name (rank 0, 1 or 3) gives the
\* empty result.
C10_ResolverBijectionAmended ==
    /\ (generic # <<>> /\ request = NoRequest) =>
          /\ ValidDescriptor(generic[1])
          /\ generic[1].rank # 2
    /\ resolved # NotResolved =>
          CASE request = NoRequest -> resolved = <<NoName>>
            [] request.name = "bitmap" ->
                  resolved = IF request.order = ByRow
                             THEN <<"Full_row", "Full_row">>
                             ELSE <<"Full_col", "Full_col">>
            [] OTHER -> resolved = <<request.name>>

\* a DCSC request with two stored columns, resolved
C10_Witness ==
    /\ request.name = "DCSC"
    /\ request.colind = <<0, 1>>
    /\ Len(generic) = 1
    /\ resolved = <<"DCSC">>

(***************************************************************************)
(* Checked conversion: a call of convert first compares the rank and the   *)
(* logical dimensions of the target with the source and validates the      *)
(* target sequence; it fails with a typed error, or builds a new           *)
(* descriptor and returns it.                                              *)
(***************************************************************************)
MaxCallRank == 3

NoCall == [formats |-> <<"none">>, order |-> <<>>, dims |-> <<>>]

NoError == "NoError"
NoResult == "none"
RankMismatch == "RankMismatch"
DimensionMismatch == "DimensionMismatch"
IllegalTargetFormat == "IllegalTargetFormat"

\* the axis orders of a call of rank r: as listed, or reversed
OrdersOf(r) == {[k \in 1..r |-> k - 1], [k \in 1..r |-> r - k]}

\* the logical dimensions a call may name
Shapes(r) ==
    IF r = 2 THEN {<<m, n>> : m \in 1..MaxDim, n \in 1..MaxDim}
    ELSE {[k \in 1..r |-> MaxDim]}

\* every call: any format sequence of rank 1..MaxCallRank, legal or not
Calls ==
    UNION {[formats : [1..r -> AxisFormat], order : OrdersOf(r), dims : Shapes(r)] :
           r \in 1..MaxCallRank}

\* the sources of the checked calls: one-entry COO and iso-valued full matrices
CheckedSources ==
    UNION {{COO(ByRow, m, n, <<i>>, <<j>>, FALSE, <<5>>) : i \in 0..(m - 1), j \in 0..(n - 1)}
           \cup {FullMatrix(ByRow, m, n, TRUE, <<5>>), FullMatrix(ByCol, n, m, TRUE, <<5>>)} :
           m \in 1..MaxDim, n \in 1..MaxDim}

\* the failure of a call c on source d, or NoError
convertError(d, c) ==
    IF Len(c.formats) # d.rank THEN RankMismatch
    ELSE IF c.dims # LogicalDims(d) THEN DimensionMismatch
    ELSE IF ~ValidatorAccepts(c.formats) THEN IllegalTargetFormat
    ELSE NoError

InitChecked ==
    /\ src \in CheckedSources
    /\ mid = NoMatrix
    /\ back = NoMatrix
    /\ target = NoTarget
    /\ call = NoCall
    /\ phase = "idle"
    /\ error = NoError

\* convert is called: the checks fail, or the new descriptor is being built
ConvertCall ==
    /\ phase = "idle"
    /\ \E c \in Calls :
          /\ call' = c
          /\ error' = convertError(src, c)
          /\ phase' = IF convertError(src, c) = NoError THEN "building" ELSE "failed"
    /\ UNCHANGED <<converterVars, validatorVars, axisVars, resolverVars,
                 tensorVars, hdf5Vars>>

\* the new descriptor is complete and returned
ConvertReturn ==
    /\ phase = "building"
    /\ mid' = convert(src, call.formats, call.order)
    /\ phase' = "returned"
    /\ UNCHANGED <<src, back, target, call, error, validatorVars, axisVars,
                 resolverVars, tensorVars, hdf5Vars>>

\* what holds of a checked call in every state
ConvertOutcome ==
    LET sameRank == Len(call.formats) = src.rank
        sameDims == sameRank /\ call.dims = LogicalDims(src)
        legal == LegalByRules(call.formats)
    IN /\ phase \in {"idle", "building"} => (mid = NoMatrix /\ error = NoError)
       /\ phase # "idle" =>
             /\ ~sameRank => (phase = "failed" /\ error = RankMismatch)
             /\ (sameRank /\ ~sameDims) =>
                   (phase = "failed" /\ error = DimensionMismatch)
             /\ (sameDims /\ ~legal) =>
                   (phase = "failed" /\ error = IllegalTargetFormat)
             /\ (sameDims /\ legal) =>
                   (phase \in {"building", "returned"} /\ error = NoError)
       /\ phase = "failed" => (mid = NoMatrix /\ error # NoError)
       /\ phase = "returned" =>
             /\ ValidDescriptor(mid)
             /\ FormatsOf(mid) = call.formats
             /\ OrderOf(mid) = call.order
             /\ LogicalDims(mid) = call.dims
       /\ ValidDescriptor(src)

\* C11: a call of convert whose target differs from the source in rank fails
\* with RankMismatch, one that differs in logical dimensions with
\* DimensionMismatch, one whose target sequence the rules reject with
\* IllegalTargetFormat (the first of the three that applies); a failed call
\* returns no descriptor, no descriptor is visible before the call returns, a
\* returned descriptor is complete and valid, and no call changes the source.
C11_ConvertErrors == [](ConvertOutcome) /\ [][src' = src]_vars

\* a legal CSR target of other dimensions than the source: DimensionMismatch
C11_Witness ==
    /\ phase = "failed"
    /\ error = DimensionMismatch
    /\ call.formats = <<Sparse, Index>>
    /\ call.dims # LogicalDims(src)
    /\ mid = NoMatrix

(***************************************************************************)
(* Tensors of rank 1 to 3 whose axes are Sparse, Hyper or Index (rank 3:   *)
(* "1D hyperlist of 2D CSR/CSC matrices", "1D dense array of 2D            *)
(* hypersparse", ...), built from the coordinates they store, and the      *)
(* sizes the validator derives for each axis from the axis format table.   *)
(* Every axis has dimension TensorDim; a coordinate (i, j, k) is written   *)
(* as the number (i * TensorDim + j) * TensorDim + k, so that the order of *)
(* the numbers is the storage order of the coordinates.                    *)
(***************************************************************************)
TensorRank == 3
TensorDim == 2
MaxStored == 2

RECURSIVE Pow(_, _)
Pow(b, n) == IF n = 0 THEN 1 ELSE b * Pow(b, n - 1)

\* the legal format sequences of rank 1..TensorRank without a Full axis
Layouts ==
    {f \in UNION {[1..r -> {Sparse, Hyper, Index}] : r \in 1..TensorRank} :
        LegalByRules(f)}

Coordinates(r) == 0..(Pow(TensorDim, r) - 1)

\* the subsets of S of at most n elements
RECURSIVE UpTo(_, _)
UpTo(S, n) ==
    IF n = 0 THEN {{}}
    ELSE LET less == UpTo(S, n - 1)
         IN less \cup UNION {{A \cup {x} : x \in S} : A \in less}

\* up to MaxStored coordinates of a tensor of rank r
StoredSets(r) == UpTo(Coordinates(r), MaxStored)

\* the first k coordinates of coordinate e of a tensor of rank r
Prefix(e, k, r) == e \div Pow(TensorDim, r - k)

\* the objects axis k describes, each named by its first k coordinates, in
\* storage order: an Index axis lists one object per entry, a Hyper axis
\* the non-empty objects, a Sparse axis every object of every object of
\* the axis to its left
RECURSIVE Objects(_, _, _)
Objects(f, E, k) ==
    IF k = 0 THEN <<0>>
    ELSE CASE f[k] = Index ->
                 LET L == SortedList(E)
                 IN [p \in 1..Len(L) |-> Prefix(L[p], k, Len(f))]
           [] f[k] = Hyper -> SortedList({Prefix(e, k, Len(f)) : e \in E})
           [] f[k] = Sparse ->
                 LET P == Objects(f, E, k - 1)
                 IN [q \in 1..(Len(P) * TensorDim) |->
                        P[((q - 1) \div TensorDim) + 1] * TensorDim
                            + ((q - 1) % TensorDim)]

\* offsets that count the objects of own [i] itself
OffsetsInto_inclusive(own, next) ==
    [i \in 1..(Len(own) + 1) |->
        IF i <= Len(own)
        THEN Cardinality({q \in 1..Len(next) : next[q] \div TensorDim <= own[i]})
        ELSE Len(next)]

\* the pointer of an axis with objects own into the objects next of the axis
\* to its right: where the objects of own [i] start, and the count of next
OffsetsInto(own, next) ==
    [i \in 1..(Len(own) + 1) |->
        IF i <= Len(own)
        THEN Cardinality({q \in 1..Len(next) : next[q] \div TensorDim < own[i]})
        ELSE Len(next)]

TensorAxis(f, E, k) ==
    LET own == Objects(f, E, k)
    IN bc_axis(k - 1, TensorDim,
               f[k] # Index
                   \/ \A i \in 1..(Len(own) - 1) :
                         own[i] \div TensorDim = own[i + 1] \div TensorDim
                             => own[i] < own[i + 1],
               IF f[k] \in {Sparse, Hyper}
               THEN OffsetsInto(own, Objects(f, E, k + 1)) ELSE NULL,
               IF f[k] \in {Hyper, Index}
               THEN [i \in 1..Len(own) |-> own[i] % TensorDim] ELSE NULL,
               IF f[k] = Sparse THEN TensorDim ELSE Len(own))

\* the bc_matrix of layout f that stores the coordinates E
BuildTensor(f, E) ==
    bc_matrix(FALSE, [k \in 1..Len(f) |-> TensorAxis(f, E, k)],
              [p \in 1..Cardinality(E) |-> 5], Cardinality(E))

\* the CSR matrix of the size derivation: m = 4, n = 5, nnz = 6
SizeScenario ==
    {Request("CSR", ByRow, 4, 5, <<0, 2, 2, 5, 6>>, NULL, <<0, 4, 1, 2, 3, 0>>,
             vb, NULL) :
        vb \in {[iso |-> FALSE, values |-> <<5, 7, 5, 7, 5, 7>>],
                [iso |-> TRUE, values |-> <<5>>]}}

\* a Hyper axis sized like a Sparse axis
requiredPointerLength_dim(a) ==
    IF classify(a) \in {Sparse, Hyper} THEN a.dimension + 1 ELSE 0

\* the axis format table: Hyper: pointer [k] has size nindex [k] + 1;
\* Sparse: pointer [k] has size dim [k] + 1
requiredPointerLength(a) ==
    CASE classify(a) = Hyper -> a.nindex + 1
      [] classify(a) = Sparse -> a.dimension + 1
      [] OTHER -> 0

\* Index, Hyper: index [k] has size nindex [k]
requiredIndexLength(a) ==
    IF classify(a) \in {Hyper, Index} THEN a.nindex ELSE 0

\* the count of objects of axis k: dim [k] for Sparse and Full, and for an
\* Index axis right of a pointer axis the last entry of that pointer
RECURSIVE derivedNindex(_, _)
derivedNindex(d, k) ==
    LET a == d.axis[k]
    IN CASE classify(a) \in {Sparse, Full} -> a.dimension
         [] classify(a) = Hyper -> a.nindex
         [] classify(a) = Index ->
               IF k > 1 /\ classify(d.axis[k - 1]) \in {Sparse, Hyper}
               THEN d.axis[k - 1].pointer[Len(d.axis[k - 1].pointer)]
               ELSE IF k > 1 /\ classify(d.axis[k - 1]) = Index
               THEN derivedNindex(d, k - 1)
               ELSE a.nindex

\* what the validator derives for each axis, left to right
Derive(d) ==
    [k \in 1..d.rank |->
        LET a == [d.axis[k] EXCEPT !.nindex = derivedNindex(d, k)]
        IN [nindex |-> a.nindex,
            hasPointer |-> classify(a) \in {Sparse, Hyper},
            pointerLength |-> requiredPointerLength(a),
            hasIndex |-> classify(a) \in {Hyper, Index},
            indexLength |-> requiredIndexLength(a)]]

\* a tensor is built from the coordinates it stores
Build ==
    /\ tensor = NoMatrix
    /\ \E f \in Layouts : \E E \in StoredSets(Len(f)) :
          /\ stored' = E
          /\ tensor' = BuildTensor(f, E)
    /\ UNCHANGED <<derived, validatorVars, axisVars, converterVars, resolverVars,
                 checkedVars, hdf5Vars>>

\* a CSR matrix is built by the resolver
BuildCSR ==
    /\ tensor = NoMatrix
    /\ \E r \in CSRRequests(Dims) \cup SizeScenario :
          /\ stored' = CoordSet(toGeneric(r)[1])
          /\ tensor' = toGeneric(r)[1]
    /\ UNCHANGED <<derived, validatorVars, axisVars, converterVars, resolverVars,
                 checkedVars, hdf5Vars>>

\* the validator derives the sizes of the axes
DeriveSizes ==
    /\ tensor # NoMatrix
    /\ derived = <<>>
    /\ derived' = Derive(tensor)
    /\ UNCHANGED <<stored, tensor, validatorVars, axisVars, converterVars,
                 resolverVars, checkedVars, hdf5Vars>>

\* the sizes derived for the axes of the tensor follow the axis format table
DerivedByTable ==
    \A k \in 1..tensor.rank :
        LET a == tensor.axis[k]
            s == derived[k]
        IN /\ classify(a) = Sparse =>
                 /\ s.hasPointer /\ ~s.hasIndex
                 /\ s.pointerLength = a.dimension + 1
                 /\ s.nindex = a.dimension
           /\ classify(a) = Hyper =>
                 /\ s.hasPointer /\ s.hasIndex
                 /\ s.pointerLength = s.nindex + 1
                 /\ s.indexLength = s.nindex
                 /\ s.pointerLength = Len(a.pointer)
                 /\ s.indexLength = Len(a.index)
           /\ classify(a) = Index =>
                 /\ ~s.hasPointer /\ s.hasIndex
                 /\ s.indexLength = s.nindex
                 /\ s.indexLength = Len(a.index)

\* the sizes derived for a CSR matrix, and the buffers it holds
DerivedForCSR ==
    FormatsOf(tensor) = <<Sparse, Index>> =>
        LET m == tensor.axis[1].dimension
            nnz == tensor.nvals
        IN /\ derived[1].pointerLength = m + 1
           /\ derived[1].pointerLength = Len(tensor.axis[1].pointer)
           /\ derived[1].nindex = m
           /\ derived[1].nindex = tensor.axis[1].nindex
           /\ ~derived[1].hasIndex /\ tensor.axis[1].index = NULL
           /\ derived[2].indexLength = nnz
           /\ derived[2].indexLength = Len(tensor.axis[2].index)
           /\ derived[2].nindex = nnz
           /\ ~derived[2].hasPointer /\ tensor.axis[2].pointer = NULL
           /\ (m = 4 /\ tensor.axis[2].dimension = 5 /\ nnz = 6) =>
                 /\ derived[1].pointerLength = 5
                 /\ derived[2].indexLength = 6
                 /\ derived[1].nindex = 4

\* the count of objects an axis describes, read from its buffers
ObjectCount(d, k) ==
    IF k = 0 THEN 1
    ELSE IF classify(d.axis[k]) = Sparse THEN Len(d.axis[k].pointer) - 1
    ELSE d.axis[k].nindex

HyperBuffers(a) ==
    /\ Len(a.index) = a.nindex
    /\ \A i \in 1..a.nindex : a.index[i] \in 0..(a.dimension - 1)
    /\ Len(a.pointer) = a.nindex + 1
    /\ a.pointer[1] = 0
    /\ NonDecreasing(a.pointer)

\* nindex = dimension on Sparse and Full axes
DenseCounts(d) ==
    \A k \in 1..d.rank :
        classify(d.axis[k]) \in {Sparse, Full} => d.axis[k].nindex = d.axis[k].dimension

HeldDescriptors ==
    LET all == <<src, mid, back>> \o generic
    IN {i \in 1..Len(all) : all[i] # NoMatrix}

Held(i) == (<<src, mid, back>> \o generic)[i]

\* C13 (as stated): in every descriptor the value buffer has length 1 if
\* and only if iso_valued is true, and has length nvals otherwise.
C13_ValueBuffer ==
    \A i \in HeldDescriptors :
        LET d == Held(i)
        IN /\ Len(d.values) = 1 <=> d.iso_valued
           /\ ~d.iso_valued => Len(d.values) = d.nvals

\* C13 (amended): in every descriptor the value buffer has length 1 when
\* iso_valued is true and length nvals when it is false; a buffer of length
\* 1 is that of an iso-valued descriptor or of one with nvals = 1.
C13_ValueBufferAmended ==
    \A i \in HeldDescriptors :
        LET d == Held(i)
        IN /\ d.iso_valued => Len(d.values) = 1
           /\ ~d.iso_valued => Len(d.values) = d.nvals
           /\ Len(d.values) = 1 => d.iso_valued \/ d.nvals = 1

\* a converter has returned a single explicit value for a source that is
\* not iso-valued, or a rank-0 scalar holds its one value
C13_Witness ==
    \/ /\ mid # NoMatrix
       /\ ~src.iso_valued /\ src.nvals = 1
       /\ ~mid.iso_valued /\ mid.nvals = 1 /\ Len(mid.values) = 1
    \/ /\ generic # <<>>
       /\ generic[1].rank = 0
       /\ generic[1].nvals = 1
       /\ Len(generic[1].values) = 1

(***************************************************************************)
(* hdf5_tools: the datatype a dataset is created with and the datatype     *)
(* dataset_type reads back.                                                *)
(***************************************************************************)
\* the element types of the ranges handed to write_dataset
ElementTypes ==
    {"char", "unsigned char", "int8_t", "uint8_t", "int16_t", "uint16_t",
     "int32_t", "uint32_t", "int64_t", "uint64_t", "size_t", "float", "double",
     "long double"}

StandardTypes ==
    {"STD_I8LE", "STD_U8LE", "STD_I16LE", "STD_U16LE", "STD_I32LE", "STD_U32LE",
     "STD_I64LE", "STD_U64LE", "IEEE_F32LE", "IEEE_F64LE"}

\* control has reached assert(false), the last statement of its function
AssertFalse == "assert(false)"

\* the process has ended: a failed assertion, or a crash
Aborted == "aborted"

H5Exception == "H5::Exception"

Written == "written"

\* the type a fixed-width name stands for (LP64: int64_t is long, size_t is
\* unsigned long, int8_t is signed char, which is not char)
Fundamental(T) ==
    CASE T = "int8_t" -> "signed char"
      [] T = "uint8_t" -> "unsigned char"
      [] T = "int16_t" -> "short"
      [] T = "uint16_t" -> "unsigned short"
      [] T = "int32_t" -> "int"
      [] T = "uint32_t" -> "unsigned int"
      [] T = "int64_t" -> "long"
      [] T = "uint64_t" -> "unsigned long"
      [] T = "size_t" -> "unsigned long"
      [] OTHER -> T

get_hdf5_native_type(U) ==
    LET T == Fundamental(U)
    IN CASE T = "char" -> "NATIVE_CHAR"
         [] T = "unsigned char" -> "NATIVE_UCHAR"
         [] T = "short" -> "NATIVE_SHORT"
         [] T = "unsigned short" -> "NATIVE_USHORT"
         [] T = "int" -> "NATIVE_INT"
         [] T = "unsigned int" -> "NATIVE_UINT"
         [] T = "long" -> "NATIVE_LONG"
         [] T = "unsigned long" -> "NATIVE_ULONG"
         [] T = "long long" -> "NATIVE_LLONG"
         [] T = "unsigned long long" -> "NATIVE_ULLONG"
         [] T = "float" -> "NATIVE_FLOAT"
         [] T = "double" -> "NATIVE_DOUBLE"
         [] T = "long double" -> "NATIVE_LDOUBLE"
         [] OTHER -> AssertFalse

get_hdf5_standard_type(U) ==
    LET T == Fundamental(U)
    IN CASE T = "char" -> "STD_I8LE"
         [] T = "unsigned char" -> "STD_U8LE"
         [] T = "signed char" -> "STD_I8LE"
         [] T = "short" -> "STD_I16LE"
         [] T = "unsigned short" -> "STD_U16LE"
         [] T = "int" -> "STD_I32LE"
         [] T = "unsigned int" -> "STD_U32LE"
         [] T = "long" -> "STD_I64LE"
         [] T = "unsigned long" -> "STD_U64LE"
         [] T = "float" -> "IEEE_F32LE"
         [] T = "double" -> "IEEE_F64LE"
         [] OTHER -> AssertFalse

\* what a dataset of a standard type answers to getTypeClass, getOrder,
\* getSign and getSize (in bytes)
getTypeClass(t) ==
    IF t \in {"IEEE_F32LE", "IEEE_F64LE"} THEN "H5T_FLOAT" ELSE "H5T_INTEGER"

getOrder(t) == "H5T_ORDER_LE"

getSign(t) ==
    IF t \in {"STD_U8LE", "STD_U16LE", "STD_U32LE", "STD_U64LE"}
    THEN "H5T_SGN_NONE" ELSE "H5T_SGN_2"

getSize(t) ==
    CASE t \in {"STD_I8LE", "STD_U8LE"} -> 1
      [] t \in {"STD_I16LE", "STD_U16LE"} -> 2
      [] t \in {"STD_I32LE", "STD_U32LE", "IEEE_F32LE"} -> 4
      [] t \in {"STD_I64LE", "STD_U64LE", "IEEE_F64LE"} -> 8

get_type(t) ==
    IF getTypeClass(t) = "H5T_INTEGER"
    THEN IF getOrder(t) # "H5T_ORDER_LE" THEN AssertFalse
         ELSE IF getSign(t) = "H5T_SGN_NONE" /\ getSize(t) = 8 THEN "STD_U64LE"
         ELSE IF getSign(t) = "H5T_SGN_2" /\ getSize(t) = 8 THEN "STD_I64LE"
         ELSE AssertFalse
    ELSE IF getTypeClass(t) = "H5T_FLOAT"
    THEN IF getOrder(t) # "H5T_ORDER_LE" THEN AssertFalse
         ELSE IF getSize(t) = 4 THEN "IEEE_F32LE"
         ELSE IF getSize(t) = 8 THEN "IEEE_F64LE"
         ELSE AssertFalse
    ELSE AssertFalse

\* what the caller of a function returning v gets.  Where control reached
\* assert(false), a build with assertions aborts; a build without them
\* leaves the function with no return statement, and the caller gets any
\* type or the process ends.
Outcomes(v) == IF v = AssertFalse THEN StandardTypes \cup {Aborted} ELSE {v}

Labels == {"values", "pointer"}

NoObservation == [call |-> NoResult, label |-> NoResult, result |-> NoResult]

Observation(call_, label, result) ==
    [call |-> call_, label |-> label, result |-> result]

\* the file with a dataset of type t under label, created for a range of T
createDataSet(f, label, T, t) ==
    [l \in DOMAIN f \cup {label} |->
        IF l = label THEN [elem |-> T, type |-> t] ELSE f[l]]

InitHdf5 ==
    /\ file = <<>>
    /\ observed = NoObservation

\* write_dataset(f, label, r) for a range r of T: createDataSet throws when
\* the label is taken; the dataset exists once it returns, whatever the
\* write of the data does after it
write_dataset ==
    /\ observed.result # Aborted
    /\ \E label \in Labels, T \in ElementTypes :
          \E t \in Outcomes(get_hdf5_standard_type(T)),
             n \in Outcomes(get_hdf5_native_type(T)) :
             IF t = Aborted
             THEN /\ observed' = Observation("write_dataset", label, Aborted)
                  /\ file' = file
             ELSE IF label \in DOMAIN file
             THEN /\ observed' = Observation("write_dataset", label, H5Exception)
                  /\ file' = file
             ELSE /\ file' = createDataSet(file, label, T, t)
                  /\ observed' =
                        Observation("write_dataset", label,
                                    IF n = Aborted THEN Aborted ELSE Written)
    /\ UNCHANGED <<validatorVars, axisVars, converterVars, resolverVars,
                 checkedVars, tensorVars>>

\* dataset_type(f, label): openDataSet throws when there is no such dataset
dataset_type ==
    /\ observed.result # Aborted
    /\ \E label \in Labels :
          IF label \notin DOMAIN file
          THEN observed' = Observation("dataset_type", label, H5Exception)
          ELSE \E type \in Outcomes(get_type(file[label].type)) :
                  observed' = Observation("dataset_type", label, type)
    /\ UNCHANGED <<file, validatorVars, axisVars, converterVars, resolverVars,
                 checkedVars, tensorVars>>

\* C15: for every element type that get_hdf5_standard_type maps,
\* dataset_type on the dataset written under a label returns the standard
\* type the dataset was created with, and no assertion of get_type fails.
C15_TypeRoundTrip ==
    (/\ observed.call = "dataset_type"
     /\ observed.label \in DOMAIN file
     /\ get_hdf5_standard_type(file[observed.label].elem) # AssertFalse)
        => observed.result = get_hdf5_standard_type(file[observed.label].elem)

(***************************************************************************)
(* Specifications.                                                         *)
(***************************************************************************)
InitResolver ==
    /\ \/ \E name \in MatrixNames \cup {"bitmap"} : request \in RequestsFor(name)
       \/ request = NoRequest
    /\ generic = <<>>
    /\ resolved = NotResolved

ToGeneric ==
    /\ request # NoRequest
    /\ generic = <<>>
    /\ generic' = toGeneric(request)
    /\ UNCHANGED <<request, resolved, validatorVars, axisVars, converterVars,
                 checkedVars, tensorVars, hdf5Vars>>

DirectConstruct ==
    /\ request = NoRequest
    /\ generic = <<>>
    /\ \E d \in DirectDescriptors : generic' = <<d>>
    /\ UNCHANGED <<request, resolved, validatorVars, axisVars, converterVars,
                 checkedVars, tensorVars, hdf5Vars>>

FromGeneric ==
    /\ generic # <<>>
    /\ resolved = NotResolved
    /\ resolved' = [i \in 1..Len(generic) |-> fromGeneric(generic[i])]
    /\ UNCHANGED <<request, generic, validatorVars, axisVars, converterVars,
                 checkedVars, tensorVars, hdf5Vars>>

IdleValidator ==
    /\ formats = <<>>
    /\ pos = 0
    /\ state = Start
    /\ verdict = "running"
    /\ report = NoReport

IdleAxisVars ==
    /\ axis = IdleAxis
    /\ fmt = "none"

IdleConverter ==
    /\ src = NoMatrix
    /\ mid = NoMatrix
    /\ back = NoMatrix
    /\ target = NoTarget

IdleResolver ==
    /\ request = NoRequest
    /\ generic = <<>>
    /\ resolved = NotResolved

IdleChecked ==
    /\ call = NoCall
    /\ phase = "idle"
    /\ error = NoError

IdleTensor ==
    /\ stored = {}
    /\ tensor = NoMatrix
    /\ derived = <<>>

IdleHdf5 ==
    /\ file = <<>>
    /\ observed = NoObservation

IdleOthers ==
    /\ IdleChecked
    /\ IdleTensor
    /\ IdleHdf5

Init ==
    /\ InitValidator
    /\ IdleAxisVars
    /\ IdleConverter
    /\ IdleResolver
    /\ IdleOthers

Next ==
    \/ ValidatorStep
    \/ ValidatorEnd

Spec == Init /\ [][Next]_vars

InitA ==
    /\ InitAxis
    /\ IdleValidator
    /\ IdleConverter
    /\ IdleResolver
    /\ IdleOthers

NextA == Classify

SpecAxis == InitA /\ [][NextA]_vars

InitC ==
    /\ InitConverter
    /\ IdleValidator
    /\ IdleAxisVars
    /\ IdleResolver
    /\ IdleOthers

NextC ==
    \/ ConvertTo
    \/ ConvertBack

SpecConvert == InitC /\ [][NextC]_vars

InitS ==
    /\ InitScenario
    /\ IdleValidator
    /\ IdleAxisVars
    /\ IdleResolver
    /\ IdleOthers

NextS ==
    \/ ScenarioToCSR
    \/ ConvertBack

SpecScenario == InitS /\ [][NextS]_vars

InitR ==
    /\ InitResolver
    /\ IdleValidator
    /\ IdleAxisVars
    /\ IdleConverter
    /\ IdleOthers

NextR ==
    \/ ToGeneric
    \/ DirectConstruct
    \/ FromGeneric

SpecResolve == InitR /\ [][NextR]_vars

InitX ==
    /\ InitChecked
    /\ IdleValidator
    /\ IdleAxisVars
    /\ IdleResolver
    /\ IdleTensor
    /\ IdleHdf5

NextX ==
    \/ ConvertCall
    \/ ConvertReturn

SpecChecked == InitX /\ [][NextX]_vars

InitT ==
    /\ IdleTensor
    /\ IdleValidator
    /\ IdleAxisVars
    /\ IdleConverter
    /\ IdleResolver
    /\ IdleChecked
    /\ IdleHdf5

NextT ==
    \/ Build
    \/ BuildCSR
    \/ DeriveSizes

SpecTensor == InitT /\ [][NextT]_vars

InitD ==
    \/ InitC
    \/ InitR

\* the resolver and the converter, each on its own descriptors
NextD ==
    \/ src # NoMatrix /\ ConvertTo
    \/ src # NoMatrix /\ ConvertBack
    \/ src = NoMatrix /\ ToGeneric
    \/ src = NoMatrix /\ DirectConstruct
    \/ src = NoMatrix /\ FromGeneric

SpecDescriptors == InitD /\ [][NextD]_vars

InitH ==
    /\ InitHdf5
    /\ IdleValidator
    /\ IdleAxisVars
    /\ IdleConverter
    /\ IdleResolver
    /\ IdleChecked
    /\ IdleTensor

NextH ==
    \/ write_dataset
    \/ dataset_type

SpecHdf5 == InitH /\ [][NextH]_vars

=============================================================================
